---- MODULE Spec2Model ----
(***************************************************************************)
(* Model of the bounded-integer generator (macro/src/generate.rs) and of   *)
(* the type it emits.  One specification (primitive, range) is generated    *)
(* for both kinds, enum and struct; the two generated types then run in    *)
(* lockstep on the same inputs.  The primitive is a Bits-wide integer.     *)
(* A second specification follows `generate` stage by stage, next to the   *)
(* variant loop of the older plugin (bounded-integer-plugin).              *)
(***************************************************************************)
EXTENDS Integers, Sequences, FiniteSets, TLC

\* Width in bits of the modelled primitive (u8/i8 ... u128/i128 in the program).
Bits == 2
\* Largest exponent handed to pow / checked_pow / saturating_pow.
MaxExp == 2
\* Longest iterator handed to sum / product.
MaxIter == 2

VARIABLES
    item,            \* the BoundedInteger specification: repr.signed, range
    overflow_checks, \* the build's overflow-checks setting (debug: on, release: off)
    pc,              \* "generate_item" | "variants" | "idle" | "ret"
    variant,         \* generate_item: the loop variable, an unbounded integer
    inner_tokens,    \* generate_item: the enum's variant list emitted so far
    inst,            \* the live instance of each generated type, by kind
    call,            \* the last call on the generated types and what it returned
    features,        \* generate: the cargo features the macro crate is built with
    output,          \* generate: its `tokens`, the output stream so far, by kind
    tests,           \* generate_test_range: the literals of the emitted tests
    ran,             \* the emitted range() test: the assertions executed, by kind
    plugin           \* IntegerEnum::variants: its position, `current` and `vec`

\* What only the run of `generate` and of the plugin's loop change.
gvars == <<features, output, tests, ran, plugin>>

vars == <<item, overflow_checks, pc, variant, inner_tokens, inst, call,
          features, output, tests, ran, plugin>>

Kinds == {"Enum", "Struct"}

----------------------------------------------------------------------------
(* The primitive: a fixed-width integer, signed (two's complement) or not. *)

Modulus == 2 ^ Bits

PrimMIN(signed) == IF signed THEN -(2 ^ (Bits - 1)) ELSE 0

PrimMAX(signed) == IF signed THEN 2 ^ (Bits - 1) - 1 ELSE 2 ^ Bits - 1

Prim(signed) == PrimMIN(signed) .. PrimMAX(signed)

\* The value a Bits-wide register holds after a wrapping operation.
Wrap(signed, v) ==
    LET m == v % Modulus
    IN  IF signed /\ m > PrimMAX(signed) THEN m - Modulus ELSE m

Abs(a) == IF a < 0 THEN -a ELSE a

\* Rust's `/` truncates towards zero.
TruncDiv(a, b) ==
    LET q == Abs(a) \div Abs(b)
    IN  IF (a >= 0) = (b > 0) THEN q ELSE -q

RECURSIVE Pow(_, _)
Pow(a, n) == IF n = 0 THEN 1 ELSE a * Pow(a, n - 1)

DivOps == {"div", "rem", "div_euclid", "rem_euclid"}

\* The result of a primitive operation over the unbounded integers.
Exact(op, a, b) ==
    CASE op = "add" -> a + b
      [] op = "sub" -> a - b
      [] op = "mul" -> a * b
      [] op = "div" -> TruncDiv(a, b)
      [] op = "rem" -> a - b * TruncDiv(a, b)
      [] op = "div_euclid" -> TruncDiv(a - (a % Abs(b)), b)
      [] op = "rem_euclid" -> a % Abs(b)
      [] op = "neg" -> -a
      [] op = "abs" -> Abs(a)
      [] op = "pow" -> Pow(a, b)

\* Division by zero, and MIN / -1 (MIN % -1), which no build lets through.
DivFails(op, signed, a, b) ==
    /\ op \in DivOps
    /\ \/ b = 0
       \/ signed /\ a = PrimMIN(signed) /\ b = -1

Some(x) == [t |-> "Some", v |-> x]
None == [t |-> "None"]
Panic == [t |-> "Panic"]
\* A returned instance of the bounded type, and a returned primitive or bool.
Ret(x) == [t |-> "Ret", v |-> x]
Val(x) == [t |-> "Val", v |-> x]

\* <primitive>::checked_<op>: None on overflow and on a failing division.
prim_checked(op, signed, a, b) ==
    IF DivFails(op, signed, a, b) THEN None
    ELSE IF Exact(op, a, b) \in Prim(signed) THEN Some(Exact(op, a, b))
    ELSE None

\* <primitive>::saturating_<op>: clamps to the primitive's own domain.
prim_saturating(op, signed, a, b) ==
    LET r == Exact(op, a, b)
    IN  IF r < PrimMIN(signed) THEN PrimMIN(signed)
        ELSE IF r > PrimMAX(signed) THEN PrimMAX(signed)
        ELSE r

\* The primitive's operator or inherent method (+ - * / % -x abs pow
\* div_euclid rem_euclid): panics on a failing division; on overflow it
\* panics when the build checks overflow and wraps when it does not.
prim_op(op, signed, a, b) ==
    IF DivFails(op, signed, a, b) THEN Panic
    ELSE IF Exact(op, a, b) \in Prim(signed) THEN Val(Exact(op, a, b))
    ELSE IF overflow_checks THEN Panic
    ELSE Val(Wrap(signed, Exact(op, a, b)))

----------------------------------------------------------------------------
(* Range arithmetic of the generator: literals and variant names.          *)

\* Repr::try_number_literal: the literal of n in the primitive, or an error.
try_number_literal(n) ==
    IF n \in Prim(item.signed) THEN [ok |-> TRUE, lit |-> n] ELSE [ok |-> FALSE]

\* Repr::number_literal: the same, failing generation on an error.
number_literal(n) == try_number_literal(n).lit

\* enum_variant: N<magnitude>, Z, P<value>.
enum_variant(i) ==
    IF i < 0 THEN <<"N", -i>>
    ELSE IF i = 0 THEN <<"Z">>
    ELSE <<"P", i>>

----------------------------------------------------------------------------
(* The emitted type: the item, its constants, constructors and getter.     *)

\* An enum variant without an explicit discriminant takes the previous
\* variant's discriminant plus one (the first one: zero).
RECURSIVE discriminant(_, _)
discriminant(tokens, i) ==
    IF tokens[i].disc # <<>> THEN tokens[i].disc[1]
    ELSE IF i = 1 THEN 0
    ELSE discriminant(tokens, i - 1) + 1

declared(tokens, name) == \E i \in 1 .. Len(tokens) : tokens[i].name = name

variant_index(tokens, name) ==
    CHOOSE i \in 1 .. Len(tokens) : tokens[i].name = name

MIN_VALUE == number_literal(item.start)

MAX_VALUE == number_literal(item.end)

MIN(kind) ==
    IF kind = "Struct" THEN <<MIN_VALUE>> ELSE enum_variant(item.start)

\* Mutant of MAX: the enum's constant named after the range's start.
MAX_first(kind) ==
    IF kind = "Struct" THEN <<MAX_VALUE>> ELSE enum_variant(item.start)

MAX(kind) ==
    IF kind = "Struct" THEN <<MAX_VALUE>> ELSE enum_variant(item.end)

\* get: `self.0` for the struct, `self as _` for the enum.
get(kind, x) ==
    IF kind = "Struct" THEN x[1]
    ELSE discriminant(inner_tokens, variant_index(inner_tokens, x))

\* Mutant of in_range: the upper comparison made strict.
in_range_exclusive(n) == n >= MIN_VALUE /\ n < MAX_VALUE

in_range(n) == n >= MIN_VALUE /\ n <= MAX_VALUE

\* Mutant of variant_arms: the loop stops one value short of the end.
RECURSIVE variant_arms_short(_)
variant_arms_short(v) ==
    IF v < item.end
    THEN <<[value |-> number_literal(v), name |-> enum_variant(v)]>>
             \o variant_arms_short(v + 1)
    ELSE <<>>

\* The loop of generate_checked_constructors: one (literal, name) per value.
RECURSIVE variant_arms(_)
variant_arms(v) ==
    IF v <= item.end
    THEN <<[value |-> number_literal(v), name |-> enum_variant(v)]>>
             \o variant_arms(v + 1)
    ELSE <<>>

\* A match arm: the pattern lo..=hi (a literal: lo = hi, `_`: everything).
Arm(lo, hi, body) == [lo |-> lo, hi |-> hi, body |-> body]

new_arms ==
    LET arms == variant_arms(item.start)
    IN  [i \in 1 .. Len(arms) |->
            Arm(arms[i].value, arms[i].value, Some(arms[i].name))]
        \o <<Arm(PrimMIN(item.signed), PrimMAX(item.signed), None)>>

\* Mutant of new_saturating_arms: the two clamping arms' bodies swapped.
new_saturating_arms_swapped ==
    LET arms == variant_arms(item.start)
    IN  <<Arm(PrimMIN(item.signed), MIN_VALUE, MAX("Enum")),
          Arm(MAX_VALUE, PrimMAX(item.signed), MIN("Enum"))>>
        \o [i \in 1 .. Len(arms) |->
                Arm(arms[i].value, arms[i].value, arms[i].name)]

new_saturating_arms ==
    LET arms == variant_arms(item.start)
    IN  <<Arm(PrimMIN(item.signed), MIN_VALUE, MIN("Enum")),
          Arm(MAX_VALUE, PrimMAX(item.signed), MAX("Enum"))>>
        \o [i \in 1 .. Len(arms) |->
                Arm(arms[i].value, arms[i].value, arms[i].name)]

\* `match n { arms }`: the body of the first arm whose pattern holds n.
match(n, arms) ==
    LET hit(i) == arms[i].lo <= n /\ n <= arms[i].hi
        first == CHOOSE i \in 1 .. Len(arms) :
                    hit(i) /\ \A j \in 1 .. (i - 1) : ~hit(j)
    IN  arms[first].body

\* Mutant of new: the struct is built without the in_range test.
new_unvalidated(kind, n) ==
    IF kind = "Struct" THEN Some(<<n>>) ELSE match(n, new_arms)

new(kind, n) ==
    IF kind = "Struct"
    THEN IF in_range(n) THEN Some(<<n>>) ELSE None
    ELSE match(n, new_arms)

new_saturating(kind, n) ==
    IF kind = "Struct"
    THEN IF n < MIN_VALUE THEN MIN(kind)
         ELSE IF n > MAX_VALUE THEN MAX(kind)
         ELSE <<n>>
    ELSE match(n, new_saturating_arms)

\* new_unchecked: `Self(n)` for the struct; for the enum a transmute, which
\* is undefined when no variant has discriminant n: any instance may result.
new_unchecked(kind, n) ==
    IF kind = "Struct" THEN {<<n>>}
    ELSE LET same == {i \in 1 .. Len(inner_tokens) :
                        discriminant(inner_tokens, i) = n}
         IN  IF same # {} THEN {inner_tokens[i].name : i \in same}
             ELSE {inner_tokens[i].name : i \in 1 .. Len(inner_tokens)}
                      \cup {<<"invalid", n>>}

----------------------------------------------------------------------------
(* The emitted arithmetic: inherent, checked, saturating and infix forms.  *)

\* Option::expect.
expect(opt) == IF opt.t = "Some" THEN Ret(opt.v) ELSE Panic

\* Mutant of and_then_new: the result is clamped instead of validated.
and_then_new_saturating(kind, opt) ==
    IF opt.t = "Some" THEN Some(new_saturating(kind, opt.v)) ELSE None

\* Option::and_then(Self::new).
and_then_new(kind, opt) == IF opt.t = "Some" THEN new(kind, opt.v) ELSE None

\* Self::new(<primitive result>).expect(..), after a primitive call that may
\* itself have panicked.
new_expect(kind, r) == IF r.t = "Panic" THEN Panic ELSE expect(new(kind, r.v))

\* Mutant of generate_inherent_operators: abs is emitted for every repr.
generate_inherent_operators_all == {"abs", "pow", "div_euclid", "rem_euclid"}

\* generate_inherent_operators: the methods it emits; abs only for a signed
\* repr.
generate_inherent_operators ==
    (IF item.signed THEN {"abs"} ELSE {}) \cup {"pow", "div_euclid", "rem_euclid"}

\* abs, pow, div_euclid, rem_euclid of generate_inherent_operators.
inherent(kind, op, self, rhs) ==
    new_expect(kind, prim_op(op, item.signed, get(kind, self), rhs))

NoOps == "NoOps"
NoSaturating == "NoSaturating"
All == "All"

CheckedOperator(name, rhs, signed_variants, unsigned_variants) ==
    [name |-> name, rhs |-> rhs,
     signed_variants |-> signed_variants, unsigned_variants |-> unsigned_variants]

CHECKED_OPERATORS ==
    << CheckedOperator("add", "Self", All, All),
       CheckedOperator("sub", "Self", All, All),
       CheckedOperator("mul", "Self", All, All),
       CheckedOperator("div", "Self", NoSaturating, NoSaturating),
       CheckedOperator("div_euclid", "Self", NoSaturating, NoSaturating),
       CheckedOperator("rem", "Self", NoSaturating, NoSaturating),
       CheckedOperator("rem_euclid", "Self", NoSaturating, NoSaturating),
       CheckedOperator("neg", "None", All, NoSaturating),
       CheckedOperator("abs", "None", All, NoOps),
       CheckedOperator("pow", "u32", All, All) >>

\* Mutant of variants_of: the signed column is read for every repr.
variants_of_signed(op) == op.signed_variants

\* generate_checked_operators: the variants of the table row for this repr.
variants_of(op) ==
    IF item.signed THEN op.signed_variants ELSE op.unsigned_variants

\* The right-hand operands of a table row: the primitive's values for
\* "Self", exponents for "u32", no operand (a placeholder) for None.
rhs_values(op) ==
    IF op.rhs = "Self" THEN Prim(item.signed)
    ELSE IF op.rhs = "u32" THEN 0 .. MaxExp
    ELSE {0}

\* generate_checked_operators: the methods its loop over the table emits,
\* checked_<name> unless the row's variants are NoOps, saturating_<name> when
\* they are All.
generate_checked_operators ==
    LET rows(vs) == {i \in 1 .. Len(CHECKED_OPERATORS) :
                        variants_of(CHECKED_OPERATORS[i]) \in vs}
    IN  {<<"checked", CHECKED_OPERATORS[i].name>> : i \in rows({NoSaturating, All})}
            \cup {<<"saturating", CHECKED_OPERATORS[i].name>> : i \in rows({All})}

\* Mutant of checked: checked_add calls the primitive's checked_sub.
checked_add_as_sub(kind, op, self, rhs) ==
    and_then_new(kind, prim_checked(IF op = "add" THEN "sub" ELSE op,
                                    item.signed, get(kind, self), rhs))

\* checked_<op>: self.get().checked_<op>(rhs).and_then(Self::new)
checked(kind, op, self, rhs) ==
    and_then_new(kind, prim_checked(op, item.signed, get(kind, self), rhs))

\* Mutant of saturating: the primitive's wrapping operation is clamped.
saturating_wrapping(kind, op, self, rhs) ==
    new_saturating(kind, Wrap(item.signed, Exact(op, get(kind, self), rhs)))

\* saturating_<op>: Self::new_saturating(self.get().saturating_<op>(rhs))
saturating(kind, op, self, rhs) ==
    new_saturating(kind, prim_saturating(op, item.signed, get(kind, self), rhs))

Operator(method, bin, on_unsigned) ==
    [method |-> method, bin |-> bin, on_unsigned |-> on_unsigned]

OPERATORS ==
    << Operator("add", TRUE, TRUE),
       Operator("sub", TRUE, TRUE),
       Operator("mul", TRUE, TRUE),
       Operator("div", TRUE, TRUE),
       Operator("rem", TRUE, TRUE),
       Operator("neg", FALSE, FALSE) >>

\* generate_ops_traits: the rows emitted for this repr.
emitted(op) == item.signed \/ op.on_unsigned

\* generate_ops_traits: the operator traits it implements.
generate_ops_traits ==
    {OPERATORS[i].method : i \in {j \in 1 .. Len(OPERATORS) : emitted(OPERATORS[j])}}

\* Mutant of ops_bounded_repr: the result is clamped, not validated.
ops_bounded_repr_saturating(kind, method, self, rhs) ==
    LET r == prim_op(method, item.signed, get(kind, self), rhs)
    IN  IF r.t = "Panic" THEN Panic ELSE Ret(new_saturating(kind, r.v))

\* bounded + repr
ops_bounded_repr(kind, method, self, rhs) ==
    new_expect(kind, prim_op(method, item.signed, get(kind, self), rhs))

\* repr + bounded: the primitive's own operator on rhs.get(); Output = repr.
ops_repr_bounded(kind, method, self, rhs) ==
    prim_op(method, item.signed, self, get(kind, rhs))

\* bounded + bounded
ops_bounded_bounded(kind, method, self, rhs) ==
    ops_bounded_repr(kind, method, self, get(kind, rhs))

\* -bounded
ops_neg(kind, method, self) ==
    new_expect(kind, prim_op(method, item.signed, get(kind, self), 0))

\* A reference to a value (`&x`, `&mut x`) and its dereference (`*r`).
Ref(x) == [ref |-> x]
Deref(r) == r.ref

\* The six impls binop_trait_variations emits for one (lhs, rhs) pair.
Forms == {"val_val", "ref_val", "val_ref", "ref_ref", "assign_val", "assign_ref"}

\* Which operands an impl takes by reference (an assignment form takes
\* `&mut self`).
lhs_ref(form) == form \in {"ref_val", "ref_ref", "assign_val", "assign_ref"}
rhs_ref(form) == form \in {"val_ref", "ref_ref", "assign_ref"}

\* The body generate_ops_traits hands to binop_trait_variations for a family.
ops_body(kind, family, method, a, b) ==
    CASE family = "bounded_repr" -> ops_bounded_repr(kind, method, a, b)
      [] family = "repr_bounded" -> ops_repr_bounded(kind, method, a, b)
      [] family = "bounded_bounded" -> ops_bounded_bounded(kind, method, a, b)

\* Mutant of binop_trait_variations: the assignment forms compute the result
\* and leave *self as it was.
binop_trait_variations_unassigned(kind, family, method, form, self, rhs) ==
    LET body(a, b) == ops_body(kind, family, method, a, b)
        kept(r) == IF r.t = "Panic" THEN r ELSE [r EXCEPT !.v = Deref(self)]
    IN  CASE form = "val_val" -> body(self, rhs)
          [] form = "ref_val" -> body(Deref(self), rhs)
          [] form = "val_ref" -> body(self, Deref(rhs))
          [] form = "ref_ref" -> body(Deref(self), Deref(rhs))
          [] form = "assign_val" -> kept(body(Deref(self), rhs))
          [] form = "assign_ref" -> kept(body(Deref(self), Deref(rhs)))

\* binop_trait_variations: the by-value impl holds the body, the others
\* dereference and call it; an assignment form stores the result in *self,
\* and what it yields here is the value *self then holds (or the panic).
binop_trait_variations(kind, family, method, form, self, rhs) ==
    LET body(a, b) == ops_body(kind, family, method, a, b)
    IN  CASE form = "val_val" -> body(self, rhs)
          [] form = "ref_val" -> body(Deref(self), rhs)
          [] form = "val_ref" -> body(self, Deref(rhs))
          [] form = "ref_ref" -> body(Deref(self), Deref(rhs))
          [] form = "assign_val" -> body(Deref(self), rhs)
          [] form = "assign_ref" -> body(Deref(self), Deref(rhs))

\* Iterator::fold with a binary operator of the bounded type; a panic of
\* the operator ends the fold.
RECURSIVE fold(_, _, _, _)
fold(kind, method, acc, iter) ==
    IF iter = <<>> \/ acc.t = "Panic" THEN acc
    ELSE fold(kind, method,
              ops_bounded_bounded(kind, method, acc.v, Head(iter)), Tail(iter))

\* Mutant of contains: only the upper end of the range is compared.
contains_below_end(n) == n <= item.end

\* range.contains(&BigInt::from(n))
contains(n) == item.start <= n /\ n <= item.end

\* generate_iter_traits: the fold traits it implements, Sum under
\* contains(0) and Product under contains(1).
generate_iter_traits ==
    (IF contains(0) THEN {"sum"} ELSE {}) \cup (IF contains(1) THEN {"product"} ELSE {})

\* Sum::sum / Product::product for the bounded type: the results the fold
\* can give from the unchecked seed.
iter_fold(kind, method, seed, iter) ==
    {IF kind = "Struct" \/ declared(inner_tokens, a)
        THEN fold(kind, method, Ret(a), iter) ELSE Ret(a)
     : a \in new_unchecked(kind, seed)}

----------------------------------------------------------------------------
(* The state machine: generation of the item, then calls on the types.     *)

Items ==
    {[signed |-> s, start |-> a, end |-> b] :
        s \in BOOLEAN, a \in Prim(TRUE) \cup Prim(FALSE),
        b \in Prim(TRUE) \cup Prim(FALSE)}

\* A parsed specification: min <= max, both inside the primitive's domain.
ValidItems ==
    {i \in Items :
        i.start \in Prim(i.signed) /\ i.end \in Prim(i.signed) /\ i.start <= i.end}

NoCall(self) ==
    [fn |-> "none", op |-> "", arg |-> <<>>, self |-> self,
     ret |-> [k \in Kinds |-> None]]

Init ==
    /\ item \in ValidItems
    /\ overflow_checks \in BOOLEAN
    /\ pc = "generate_item"
    /\ variant = 0
    /\ inner_tokens = <<>>
    /\ inst = [k \in Kinds |-> <<>>]
    /\ call = NoCall([k \in Kinds |-> <<>>])
    /\ features = {}
    /\ output = [k \in Kinds |-> <<>>]
    /\ tests = <<>>
    /\ ran = [k \in Kinds |-> <<>>]
    /\ plugin = [pc |-> "variants", current |-> item.start, vec |-> <<>>]

\* generate_item, Kind::Enum: the first variant, with its discriminant.
generate_item_first ==
    /\ pc = "generate_item"
    /\ inner_tokens' = <<[name |-> enum_variant(item.start),
                          disc |-> <<number_literal(item.start)>>]>>
    /\ variant' = item.start + 1
    /\ pc' = "variants"
    /\ UNCHANGED <<item, overflow_checks, inst, call>>
    /\ UNCHANGED gvars

\* Mutant of loop_cond: the loop's bound made exclusive.
loop_cond_exclusive == variant < item.end

\* while variant <= *item.range.end()
loop_cond == variant <= item.end

\* generate_item, the loop body: one more variant, no discriminant.
generate_item_loop ==
    /\ pc = "variants"
    /\ loop_cond
    /\ inner_tokens' = Append(inner_tokens,
                              [name |-> enum_variant(variant), disc |-> <<>>])
    /\ variant' = variant + 1
    /\ UNCHANGED <<item, overflow_checks, pc, inst, call>>
    /\ UNCHANGED gvars

\* generate_item, after the loop: the item is emitted and the types exist;
\* the first live instance is the constant MIN.
generate_item_end ==
    /\ pc = "variants"
    /\ ~loop_cond
    /\ pc' = "idle"
    /\ inst' = [k \in Kinds |-> MIN(k)]
    /\ call' = NoCall([k \in Kinds |-> MIN(k)])
    /\ UNCHANGED <<item, overflow_checks, variant, inner_tokens>>
    /\ UNCHANGED gvars

\* A call returns: what it returned is recorded, and a returned instance
\* becomes the live one (x = x.op(..), x op= ..).
Return(fn, op, arg, ret) ==
    /\ pc = "idle"
    /\ pc' = "ret"
    /\ call' = [fn |-> fn, op |-> op, arg |-> arg, self |-> inst, ret |-> ret]
    /\ inst' = [k \in Kinds |->
                    IF ret[k].t \in {"Some", "Ret"} THEN ret[k].v ELSE inst[k]]
    /\ UNCHANGED <<item, overflow_checks, variant, inner_tokens>>
    /\ UNCHANGED gvars

\* The primitive values that `new` accepts for both types: the operands a
\* caller can hand over as instances.
Instances == {v \in Prim(item.signed) : \A k \in Kinds : new(k, v).t = "Some"}

CallMIN == Return("MIN", "", <<>>, [k \in Kinds |-> Ret(MIN(k))])

CallMAX == Return("MAX", "", <<>>, [k \in Kinds |-> Ret(MAX(k))])

CallInRange ==
    \E n \in Prim(item.signed) :
        Return("in_range", "", <<n>>, [k \in Kinds |-> Val(in_range(n))])

CallNew ==
    \E n \in Prim(item.signed) :
        Return("new", "", <<n>>, [k \in Kinds |-> new(k, n)])

CallNewSaturating ==
    \E n \in Prim(item.signed) :
        Return("new_saturating", "", <<n>>,
               [k \in Kinds |-> Ret(new_saturating(k, n))])

CallGet == Return("get", "", <<>>, [k \in Kinds |-> Val(get(k, inst[k]))])

CallInherent ==
    \E op \in {"abs", "pow", "div_euclid", "rem_euclid"} :
        /\ op = "abs" => item.signed
        /\ \E rhs \in (IF op = "abs" THEN {0}
                        ELSE IF op = "pow" THEN 0 .. MaxExp
                        ELSE Prim(item.signed)) :
               Return("inherent", op, <<rhs>>,
                      [k \in Kinds |-> inherent(k, op, inst[k], rhs)])

CallChecked ==
    \E i \in 1 .. Len(CHECKED_OPERATORS) :
        LET op == CHECKED_OPERATORS[i] IN
        /\ variants_of(op) # NoOps
        /\ \E rhs \in rhs_values(op) :
               Return("checked", op.name, <<rhs>>,
                      [k \in Kinds |-> checked(k, op.name, inst[k], rhs)])

CallSaturating ==
    \E i \in 1 .. Len(CHECKED_OPERATORS) :
        LET op == CHECKED_OPERATORS[i] IN
        /\ variants_of(op) = All
        /\ \E rhs \in rhs_values(op) :
               Return("saturating", op.name, <<rhs>>,
                      [k \in Kinds |-> Ret(saturating(k, op.name, inst[k], rhs))])

CallBoundedRepr ==
    \E i \in 1 .. Len(OPERATORS) :
        LET op == OPERATORS[i] IN
        /\ emitted(op) /\ op.bin
        /\ \E rhs \in Prim(item.signed) :
               Return("bounded_repr", op.method, <<rhs>>,
                      [k \in Kinds |->
                          ops_bounded_repr(k, op.method, inst[k], rhs)])

CallReprBounded ==
    \E i \in 1 .. Len(OPERATORS) :
        LET op == OPERATORS[i] IN
        /\ emitted(op) /\ op.bin
        /\ \E lhs \in Prim(item.signed) :
               Return("repr_bounded", op.method, <<lhs>>,
                      [k \in Kinds |->
                          ops_repr_bounded(k, op.method, lhs, inst[k])])

CallBoundedBounded ==
    \E i \in 1 .. Len(OPERATORS) :
        LET op == OPERATORS[i] IN
        /\ pc = "idle"
        /\ emitted(op) /\ op.bin
        /\ \E rhs \in Instances :
               Return("bounded_bounded", op.method, <<rhs>>,
                      [k \in Kinds |->
                          ops_bounded_bounded(k, op.method, inst[k],
                                              new(k, rhs).v)])

CallNeg ==
    \E i \in 1 .. Len(OPERATORS) :
        LET op == OPERATORS[i] IN
        /\ emitted(op) /\ ~op.bin
        /\ Return("neg", op.method, <<>>,
                  [k \in Kinds |-> ops_neg(k, op.method, inst[k])])

Iters == UNION {[1 .. n -> Instances] : n \in 0 .. MaxIter}

\* generate_iter_traits: Sum (seed 0, Add::add) and Product (seed 1,
\* Mul::mul), each emitted only when the range contains its seed.
CallIter ==
    \E f \in {[fn |-> "sum", method |-> "add", seed |-> 0],
               [fn |-> "product", method |-> "mul", seed |-> 1]} :
        /\ pc = "idle"
        /\ contains(f.seed)
        /\ \E iter \in Iters :
               LET items(k) == [j \in 1 .. Len(iter) |-> new(k, iter[j]).v] IN
               \E re \in iter_fold("Enum", f.method, f.seed, items("Enum")),
                  rs \in iter_fold("Struct", f.method, f.seed, items("Struct")) :
                   Return(f.fn, f.method, iter,
                          [k \in Kinds |-> IF k = "Enum" THEN re ELSE rs])

\* One of the eighteen impls of an infix operator: a family (bounded op
\* repr, repr op bounded, bounded op bounded) in one of its six forms, the
\* operands passed by value or by reference as the form's signature asks.
CallBinop ==
    \E i \in 1 .. Len(OPERATORS), form \in Forms,
       family \in {"bounded_repr", "repr_bounded", "bounded_bounded"} :
        LET op == OPERATORS[i] IN
        /\ pc = "idle"
        /\ emitted(op) /\ op.bin
        /\ \E x \in (IF family = "bounded_bounded" THEN Instances
                      ELSE Prim(item.signed)) :
               LET pass(v, by_ref) == IF by_ref THEN Ref(v) ELSE v
                   lhs(k) == IF family = "repr_bounded" THEN x ELSE inst[k]
                   rhs(k) == CASE family = "bounded_repr" -> x
                               [] family = "repr_bounded" -> inst[k]
                               [] family = "bounded_bounded" -> new(k, x).v
                   l(k) == pass(lhs(k), lhs_ref(form))
                   r(k) == pass(rhs(k), rhs_ref(form))
                   ret(k) == binop_trait_variations(k, family, op.method, form,
                                                    l(k), r(k))
               IN  Return("binop", op.method, <<family, form, x>>,
                          [k \in Kinds |-> ret(k)])

\* The caller drops what the call returned (`let _ = ..`).
Discard ==
    /\ pc = "ret"
    /\ pc' = "idle"
    /\ call' = NoCall(inst)
    /\ UNCHANGED <<item, overflow_checks, variant, inner_tokens, inst>>
    /\ UNCHANGED gvars

Next ==
    \/ generate_item_first
    \/ generate_item_loop
    \/ generate_item_end
    \/ CallMIN
    \/ CallMAX
    \/ CallInRange
    \/ CallNew
    \/ CallNewSaturating
    \/ CallGet
    \/ CallInherent
    \/ CallChecked
    \/ CallSaturating
    \/ CallBoundedRepr
    \/ CallReprBounded
    \/ CallBoundedBounded
    \/ CallNeg
    \/ CallIter
    \/ Discard

Spec == Init /\ [][Next]_vars

\* The infix operator impls on their own: generation of the item, then
\* calls of the eighteen impls of each operator.
NextBinop ==
    \/ generate_item_first
    \/ generate_item_loop
    \/ generate_item_end
    \/ CallBinop
    \/ Discard

SpecBinop == Init /\ [][NextBinop]_vars

----------------------------------------------------------------------------
(* The run of `generate`, stage by stage, the emitted range() test, and    *)
(* the variant loop of the plugin, on the same specification.              *)

\* A fragment appended to the output stream by one stage.
Frag(name, body) == [frag |-> name, body |-> body]

InitGenerate ==
    /\ item \in ValidItems
    /\ overflow_checks \in BOOLEAN
    /\ pc = "generate_access_checker"
    /\ variant = 0
    /\ inner_tokens = <<>>
    /\ inst = [k \in Kinds |-> <<>>]
    /\ call = NoCall([k \in Kinds |-> <<>>])
    /\ features \in SUBSET {"serde", "generate_tests"}
    /\ output = [k \in Kinds |-> <<>>]
    /\ tests = [ok |-> FALSE]
    /\ ran = [k \in Kinds |-> <<>>]
    /\ plugin = [pc |-> "variants", current |-> item.start, vec |-> <<>>]

\* A stage of generate that extends the stream with one fragment.
Stage(name, next, body) ==
    /\ pc = name
    /\ output' = [k \in Kinds |-> Append(output[k], Frag(name, body))]
    /\ pc' = next
    /\ UNCHANGED <<item, overflow_checks, variant, inner_tokens, inst, call,
                   features, tests, ran, plugin>>

generate_access_checker ==
    Stage("generate_access_checker", "generate_item_attrs", <<>>)

\* generate_item up to the item's body: the item's own attributes, the
\* derives, the repr attribute, the visibility, the kind's keyword and the
\* name; a struct's body follows
\* at once, an enum's variants are built next.
generate_item_attrs ==
    /\ pc = "generate_item_attrs"
    /\ output' = [k \in Kinds |->
           output[k] \o <<Frag("attrs", <<>>), Frag("derive", <<>>),
                          Frag("repr", <<IF k = "Enum" THEN "repr" ELSE "transparent">>),
                          Frag("vis", <<>>), Frag("kind", <<k>>), Frag("ident", <<>>)>>
                     \o (IF k = "Struct" THEN <<Frag("(repr);", <<>>)>> ELSE <<>>)]
    /\ pc' = "generate_item"
    /\ UNCHANGED <<item, overflow_checks, variant, inner_tokens, inst, call,
                   features, tests, ran, plugin>>

\* generate_item, after the loop: the variant list goes to the stream.
generate_item_braces ==
    /\ pc = "variants"
    /\ ~loop_cond
    /\ output' = [output EXCEPT !["Enum"] = Append(@, Frag("{}", inner_tokens))]
    /\ pc' = "generate_impl"
    /\ UNCHANGED <<item, overflow_checks, variant, inner_tokens, inst, call,
                   features, tests, ran, plugin>>

generate_impl ==
    Stage("generate_impl", "generate_cmp_traits",
          <<generate_inherent_operators, generate_checked_operators>>)

generate_cmp_traits == Stage("generate_cmp_traits", "generate_ops_traits", <<>>)

generate_ops_traits_stage ==
    Stage("generate_ops_traits", "generate_iter_traits", <<generate_ops_traits>>)

generate_iter_traits_stage ==
    Stage("generate_iter_traits", "generate_fmt_traits", <<generate_iter_traits>>)

generate_fmt_traits ==
    Stage("generate_fmt_traits", "generate_to_primitive_traits", <<>>)

generate_to_primitive_traits ==
    Stage("generate_to_primitive_traits", "generate_serde", <<>>)

\* if cfg!(feature = "serde") { generate_serde(item, tokens); }
generate_serde ==
    /\ pc = "generate_serde"
    /\ output' = [k \in Kinds |->
           IF "serde" \in features
           THEN Append(output[k], Frag("generate_serde", <<>>)) ELSE output[k]]
    /\ pc' = "generate_tests"
    /\ UNCHANGED <<item, overflow_checks, variant, inner_tokens, inst, call,
                   features, tests, ran, plugin>>

\* opt_literal of generate_test_range.
opt_literal(num) ==
    IF try_number_literal(num).ok THEN Some(try_number_literal(num).lit) ELSE None

\* Mutant of generate_test_range: the probes outside the range are the
\* bounds themselves.
generate_test_range_on_bounds ==
    IF \E n \in {item.start, item.end, item.start + 1, item.end - 1} :
           ~try_number_literal(n).ok
    THEN [ok |-> FALSE]
    ELSE [ok |-> TRUE,
          min |-> number_literal(item.start),
          max |-> number_literal(item.end),
          above_min |-> number_literal(item.start + 1),
          below_max |-> number_literal(item.end - 1),
          below_range |-> opt_literal(item.start),
          above_range |-> opt_literal(item.end)]

\* generate_test_range: the literals of the emitted tests; number_literal
\* fails generation when one of the four it renders is outside the domain.
generate_test_range ==
    IF \E n \in {item.start, item.end, item.start + 1, item.end - 1} :
           ~try_number_literal(n).ok
    THEN [ok |-> FALSE]
    ELSE [ok |-> TRUE,
          min |-> number_literal(item.start),
          max |-> number_literal(item.end),
          above_min |-> number_literal(item.start + 1),
          below_max |-> number_literal(item.end - 1),
          below_range |-> opt_literal(item.start - 1),
          above_range |-> opt_literal(item.end + 1)]

\* if cfg!(feature = "generate_tests") { generate_tests(item, tokens); }
\* The tests are built in a stream of their own, which reaches the output
\* only when generate_test_range has not failed.
generate_tests ==
    /\ pc = "generate_tests"
    /\ IF "generate_tests" \notin features
       THEN pc' = "done" /\ UNCHANGED <<output, tests>>
       ELSE IF ~generate_test_range.ok
       THEN pc' = "panicked" /\ UNCHANGED <<output, tests>>
       ELSE /\ tests' = generate_test_range
            /\ output' = [k \in Kinds |->
                   Append(output[k], Frag("generate_tests", <<generate_test_range>>))]
            /\ pc' = "done"
    /\ UNCHANGED <<item, overflow_checks, variant, inner_tokens, inst, call,
                   features, ran, plugin>>

\* The assertions of the emitted test range(), in order, each with its
\* truth on the generated type.
range_test(kind, t) ==
    LET Assertion(what, holds) == [what |-> what, holds |-> holds] IN
    << Assertion("MIN_VALUE == min", MIN_VALUE = t.min),
       Assertion("MAX_VALUE == max", MAX_VALUE = t.max),
       Assertion("MIN.get() == min", get(kind, MIN(kind)) = t.min),
       Assertion("MAX.get() == max", get(kind, MAX(kind)) = t.max),
       IF t.below_range.t = "Some"
       THEN Assertion("!in_range(below_range)", ~in_range(t.below_range.v))
       ELSE Assertion("MIN_VALUE == repr::MIN", MIN_VALUE = PrimMIN(item.signed)),
       Assertion("in_range(min)", in_range(t.min)),
       Assertion("in_range(above_min)", in_range(t.above_min)),
       Assertion("in_range(below_max)", in_range(t.below_max)),
       Assertion("in_range(max)", in_range(t.max)),
       IF t.above_range.t = "Some"
       THEN Assertion("!in_range(above_range)", ~in_range(t.above_range.v))
       ELSE Assertion("MAX_VALUE == repr::MAX", MAX_VALUE = PrimMAX(item.signed)) >>

\* The assertions of the emitted test saturating(), in order, each with its
\* truth on the generated type; an instance is compared with a primitive
\* through get().
saturating_test(kind, t) ==
    LET Assertion(what, holds) == [what |-> what, holds |-> holds]
        sat(n) == get(kind, new_saturating(kind, n))
    IN  << Assertion("new_saturating(repr::MIN) == MIN_VALUE",
                     sat(PrimMIN(item.signed)) = MIN_VALUE) >>
        \o (IF t.below_range.t = "Some"
            THEN << Assertion("new_saturating(below_range) == MIN_VALUE",
                              sat(t.below_range.v) = MIN_VALUE) >>
            ELSE <<>>)
        \o << Assertion("new_saturating(min) == MIN_VALUE", sat(t.min) = MIN_VALUE),
              Assertion("new_saturating(above_min).get() == above_min",
                        sat(t.above_min) = t.above_min),
              Assertion("new_saturating(below_max).get() == below_max",
                        sat(t.below_max) = t.below_max),
              Assertion("new_saturating(max) == MAX_VALUE", sat(t.max) = MAX_VALUE) >>
        \o (IF t.above_range.t = "Some"
            THEN << Assertion("new_saturating(above_range) == MAX_VALUE",
                              sat(t.above_range.v) = MAX_VALUE) >>
            ELSE <<>>)
        \o << Assertion("new_saturating(repr::MAX) == MAX_VALUE",
                        sat(PrimMAX(item.signed)) = MAX_VALUE) >>

\* generate_test_arithmetic: what the body of the emitted test arithmetic()
\* names, and the constant condition of the `if` around that body.
generate_test_arithmetic ==
    [ops |-> {<<m, family, form>> :
                 m \in {"add", "sub", "mul", "div", "rem"},
                 family \in {"bounded_repr", "repr_bounded", "bounded_bounded"},
                 form \in Forms},
     neg |-> IF item.signed THEN {"val", "ref"} ELSE {},
     inherent |-> (IF item.signed THEN {"abs"} ELSE {})
                      \cup {"pow", "div_euclid", "rem_euclid"},
     checked |-> (IF item.signed
                  THEN {<<"checked", "abs">>, <<"saturating", "neg">>,
                        <<"checked", "neg">>}
                  ELSE {})
                     \cup {<<"saturating", m>> : m \in {"add", "sub", "mul", "pow"}}
                     \cup {<<"checked", m>> :
                              m \in {"add", "sub", "mul", "div", "div_euclid",
                                     "rem", "rem_euclid", "pow"}},
     guard |-> FALSE]

\* A test runs its assertions in order and stops at the first that fails.
executed(assertions) ==
    LET failing == {i \in 1 .. Len(assertions) : ~assertions[i].holds}
    IN  IF failing = {} THEN assertions
        ELSE SubSeq(assertions, 1,
                    CHOOSE i \in failing : \A j \in failing : i <= j)

\* The emitted test range() is run against the generated types.
RunRangeTest ==
    /\ pc = "done"
    /\ tests.ok
    /\ ran' = [k \in Kinds |-> executed(range_test(k, tests))]
    /\ pc' = "tested"
    /\ UNCHANGED <<item, overflow_checks, variant, inner_tokens, inst, call,
                   features, output, tests, plugin>>

\* IntLit::into_ident: N<magnitude>, Z0, P<value>.
into_ident(n) ==
    IF n < 0 THEN <<"N", -n>> ELSE IF n = 0 THEN <<"Z", 0>> ELSE <<"P", n>>

\* IntLit::succ.
succ(n) == n + 1

\* Mutant of variants_break: the loop is left one value before max.
variants_break_early == plugin.current + 1 >= item.end

\* if Ok(int_lit) == IntLit::from_expr(&*self.max) { break; }
variants_break == plugin.current = item.end

\* IntegerEnum::variants, one turn of its loop: the variant for `current`
\* is pushed, then the loop is left at max or `current` steps to its
\* successor.
IntegerEnum_variants ==
    /\ plugin.pc = "variants"
    /\ LET int_lit == plugin.current
           pushed == Append(plugin.vec, [name |-> into_ident(int_lit),
                                         disr_expr |-> plugin.current])
       IN  plugin' = IF variants_break
                     THEN [pc |-> "done", current |-> plugin.current, vec |-> pushed]
                     ELSE [pc |-> "variants", current |-> succ(int_lit),
                           vec |-> pushed]
    /\ UNCHANGED <<item, overflow_checks, pc, variant, inner_tokens, inst, call,
                   features, output, tests, ran>>

\* A step of generate.
GenerateStep ==
    \/ generate_access_checker
    \/ generate_item_attrs
    \/ generate_item_first
    \/ generate_item_loop
    \/ generate_item_braces
    \/ generate_impl
    \/ generate_cmp_traits
    \/ generate_ops_traits_stage
    \/ generate_iter_traits_stage
    \/ generate_fmt_traits
    \/ generate_to_primitive_traits
    \/ generate_serde
    \/ generate_tests

NextGenerate ==
    \/ GenerateStep
    \/ RunRangeTest
    \/ IntegerEnum_variants

\* Both generators are sequential programs that keep running: a step that
\* stays possible is taken.
SpecGenerate ==
    /\ InitGenerate
    /\ [][NextGenerate]_vars
    /\ WF_vars(GenerateStep)
    /\ WF_vars(IntegerEnum_variants)

----------------------------------------------------------------------------
(* Properties.                                                             *)

\* The types exist: generation of the item is over.
Live == pc \in {"idle", "ret"}

\* A call of fn has just returned.
Returned(fn) == pc = "ret" /\ call.fn = fn

\* The declared bounds, as the specification gives them.
InBounds(v) == item.start <= v /\ v <= item.end

Clamp(v) ==
    IF v < item.start THEN item.start ELSE IF v > item.end THEN item.end ELSE v

\* x is an instance of the type of this kind holding a value of [min, max].
HoldsInRange(k, x) ==
    IF k = "Struct" THEN Len(x) = 1 /\ InBounds(x[1])
    ELSE declared(inner_tokens, x) /\ InBounds(get(k, x))

IsInstance(r) == r.t \in {"Some", "Ret"}

C2_InRange ==
    Returned("in_range") => \A k \in Kinds :
        call.ret[k] = Val(InBounds(call.arg[1]))

\* C2 witness: in_range has answered false just above a max that is not the
\* primitive's MAX.
C2_Witness ==
    /\ Returned("in_range")
    /\ call.arg[1] = item.end + 1
    /\ call.ret["Enum"] = Val(FALSE)

\* C3: new(v) is present exactly when v is in range, and then
\* new(v).get() = v; and for every instance x (every declared variant of the
\* enum), new(x.get()) is present and equals x.
C3_NewGetInverse ==
    /\ Returned("new") => \A k \in Kinds :
          /\ (call.ret[k].t = "Some") = InBounds(call.arg[1])
          /\ call.ret[k].t \in {"Some", "None"}
          /\ call.ret[k].t = "Some" => get(k, call.ret[k].v) = call.arg[1]
    /\ Live => \A k \in Kinds : new(k, get(k, inst[k])) = Some(inst[k])
    /\ Live => \A i \in 1 .. Len(inner_tokens) :
          new("Enum", get("Enum", inner_tokens[i].name))
              = Some(inner_tokens[i].name)

\* C3 witness: new has returned an instance that is neither MIN nor MAX.
C3_Witness ==
    /\ Returned("new")
    /\ call.ret["Enum"].t = "Some"
    /\ call.ret["Struct"].t = "Some"
    /\ item.start < call.arg[1] /\ call.arg[1] < item.end

\* C4: new_saturating never fails and clamps: MIN below min, MAX above max,
\* the instance holding exactly v in between.
C4_NewSaturating ==
    Returned("new_saturating") => \A k \in Kinds :
        LET v == call.arg[1] IN
        /\ call.ret[k].t = "Ret"
        /\ get(k, call.ret[k].v) = Clamp(v)
        /\ v < item.start => call.ret[k].v = MIN(k)
        /\ v > item.end => call.ret[k].v = MAX(k)

\* C4 witness: new_saturating has clamped the primitive's MAX down to a
\* one-value range (min = max).
C4_Witness ==
    /\ Returned("new_saturating")
    /\ item.start = item.end
    /\ call.arg[1] = PrimMAX(item.signed)
    /\ call.arg[1] > item.end
    /\ call.ret["Enum"] = Ret(MAX("Enum"))

\* What a caller observes of a result: presence and the value get() gives.
Observed(k, r) == IF IsInstance(r) THEN [t |-> r.t, v |-> get(k, r.v)] ELSE r

SameObserved(a, b) == a.t = b.t /\ (a.t \in {"Some", "Ret", "Val"} => a.v = b.v)

\* C5: for the same (primitive, min, max) the enum and the struct give the
\* same observable result for MIN, MAX, in_range, new, new_saturating and
\* get, and their live instances hold the same get() value throughout.
C5_KindsAgree ==
    Live =>
        /\ get("Enum", inst["Enum"]) = get("Struct", inst["Struct"])
        /\ call.fn \in {"MIN", "MAX", "in_range", "new", "new_saturating", "get"}
              => SameObserved(Observed("Enum", call.ret["Enum"]),
                              Observed("Struct", call.ret["Struct"]))

\* C5 witness: both kinds have returned MAX, above MIN, from new_saturating.
C5_Witness ==
    /\ Returned("new_saturating")
    /\ item.start < item.end
    /\ call.ret["Enum"] = Ret(MAX("Enum"))
    /\ call.ret["Struct"] = Ret(MAX("Struct"))
    /\ call.self["Enum"] # MAX("Enum")

\* The integer a variant name stands for.
name_value(name) ==
    IF name[1] = "N" THEN -name[2] ELSE IF name[1] = "Z" THEN 0 ELSE name[2]

\* C6: the emitted variant list is strictly ascending, starts at min, ends
\* at max, holds every integer of [min, max] exactly once (max - min + 1
\* variants), and each variant's discriminant equals its integer value.
C6_VariantList ==
    Live =>
        /\ Len(inner_tokens) = item.end - item.start + 1
        /\ \A i \in 1 .. Len(inner_tokens) :
              /\ name_value(inner_tokens[i].name) = item.start + i - 1
              /\ discriminant(inner_tokens, i) = name_value(inner_tokens[i].name)
        /\ \A i, j \in 1 .. Len(inner_tokens) :
              i < j => discriminant(inner_tokens, i) < discriminant(inner_tokens, j)

\* C6 witness: a finished list that runs from a negative min through zero
\* to a positive max.
C6_Witness ==
    /\ Live
    /\ item.start < 0 /\ item.end > 0
    /\ Len(inner_tokens) = item.end - item.start + 1
    /\ inner_tokens[1].name = <<"N", -item.start>>
    /\ inner_tokens[Len(inner_tokens)].name = <<"P", item.end>>

\* The operands of the primitive operation behind the last infix call.
InfixA(k) ==
    IF call.fn = "repr_bounded" THEN call.arg[1] ELSE get(k, call.self[k])

InfixB(k) ==
    IF call.fn = "repr_bounded" THEN get(k, call.self[k]) ELSE call.arg[1]

\* The primitive operation has no result: a division by zero, MIN / -1 or
\* MIN % -1, or an overflow in a build that checks overflow.
PrimitivePanics(op, a, b) ==
    \/ op \in DivOps /\ b = 0
    \/ op \in DivOps /\ item.signed /\ a = PrimMIN(item.signed) /\ b = -1
    \/ Exact(op, a, b) \notin Prim(item.signed) /\ overflow_checks

\* The value of the primitive's domain that a Bits-wide result e comes to.
FixedWidth(e) == CHOOSE w \in Prim(item.signed) : (w - e) % Modulus = 0

InfixFamilies == {"bounded_repr", "repr_bounded", "bounded_bounded"}

\* r is a result (not a panic) that carries the value e.
Carries(k, r, e) ==
    \/ r.t = "Ret" /\ get(k, r.v) = e
    \/ r.t = "Val" /\ r.v = e

\* C7 as stated: in each of the three families, an infix overload whose
\* computed result falls outside [min, max] panics, and one whose result
\* stays in range returns it without panicking.  (Nothing is asked where
\* the operation has no fixed-width result: division by zero, overflow.)
C7_AllFamiliesPanic ==
    (pc = "ret" /\ call.fn \in InfixFamilies) => \A k \in Kinds :
        LET a == InfixA(k)
            b == InfixB(k)
        IN  \/ call.op \in DivOps /\ b = 0
            \/ Exact(call.op, a, b) \notin Prim(item.signed)
            \/ IF InBounds(Exact(call.op, a, b))
               THEN Carries(k, call.ret[k], Exact(call.op, a, b))
               ELSE call.ret[k] = Panic

\* C7 amended: a (bounded, primitive) or (bounded, bounded) overload panics
\* when the primitive operator panics or its fixed-width result is outside
\* [min, max], and otherwise returns the instance holding that result; a
\* (primitive, bounded) overload returns the primitive operator's result on
\* (lhs, rhs.get()), a primitive that is not held to [min, max].
C7_InfixChecked ==
    (pc = "ret" /\ call.fn \in InfixFamilies) => \A k \in Kinds :
        LET a == InfixA(k)
            b == InfixB(k)
            w == FixedWidth(Exact(call.op, a, b))
        IN  IF PrimitivePanics(call.op, a, b) THEN call.ret[k] = Panic
            ELSE IF call.fn = "repr_bounded" THEN call.ret[k] = Val(w)
            ELSE IF InBounds(w)
                 THEN call.ret[k].t = "Ret" /\ get(k, call.ret[k].v) = w
                 ELSE call.ret[k] = Panic

\* C7 witness: primitive + bounded has returned a primitive outside
\* [min, max] where bounded + primitive on the same operands panics.
C7_Witness ==
    /\ Returned("repr_bounded")
    /\ call.op = "add"
    /\ call.ret["Struct"].t = "Val"
    /\ ~InBounds(call.ret["Struct"].v)
    /\ ops_bounded_repr("Struct", "add", call.self["Struct"], call.arg[1]) = Panic

\* C8 as stated: pow, div_euclid, rem_euclid and abs panic when the result
\* is outside [min, max] or rhs = 0 (div_euclid, rem_euclid), and otherwise
\* return the instance holding the exact result.  (Nothing is asked where
\* the exact result does not fit the fixed-width primitive.)
C8_InherentPanics ==
    Returned("inherent") => \A k \in Kinds :
        LET a == get(k, call.self[k])
            b == call.arg[1]
        IN  IF call.op \in DivOps /\ b = 0 THEN call.ret[k] = Panic
            ELSE \/ Exact(call.op, a, b) \notin Prim(item.signed)
                 \/ IF InBounds(Exact(call.op, a, b))
                    THEN Carries(k, call.ret[k], Exact(call.op, a, b))
                    ELSE call.ret[k] = Panic

\* The primitive's checked operation succeeds: no division by zero, no
\* overflow (MIN / -1 and MIN % -1 count as overflow).
CheckedSucceeds(op, a, b) ==
    /\ ~(op \in DivOps /\ b = 0)
    /\ ~(op \in DivOps /\ item.signed /\ a = PrimMIN(item.signed) /\ b = -1)
    /\ Exact(op, a, b) \in Prim(item.signed)

\* C9: checked_<op> is present if and only if the primitive's checked
\* operation succeeds and its result r has min <= r <= max, and then its
\* get() is r; MAX.checked_add(1) is absent.
C9_Checked ==
    Returned("checked") => \A k \in Kinds :
        LET a == get(k, call.self[k])
            b == call.arg[1]
            present == CheckedSucceeds(call.op, a, b)
                           /\ InBounds(Exact(call.op, a, b))
        IN  /\ call.ret[k].t \in {"Some", "None"}
            /\ (call.ret[k].t = "Some") = present
            /\ present => get(k, call.ret[k].v) = Exact(call.op, a, b)
            /\ (call.op = "add" /\ call.self[k] = MAX(k) /\ b = 1)
                   => call.ret[k] = None

\* C9 witness: MAX.checked_add(1) has returned None although MAX + 1 fits
\* the primitive.
C9_Witness ==
    /\ Returned("checked")
    /\ call.op = "add"
    /\ call.self["Enum"] = MAX("Enum")
    /\ call.arg[1] = 1
    /\ item.end + 1 \in Prim(item.signed)
    /\ call.ret["Enum"] = None
    /\ call.ret["Struct"] = None

\* C10: saturating_<op> (add, sub, mul, pow, neg) never fails and returns
\* the exact mathematical result clamped to [min, max].
C10_Saturating ==
    (Returned("saturating") /\ call.op \in {"add", "sub", "mul", "pow", "neg"})
        => \A k \in Kinds :
            /\ call.ret[k].t = "Ret"
            /\ get(k, call.ret[k].v)
                   = Clamp(Exact(call.op, get(k, call.self[k]), call.arg[1]))

\* C10 witness: saturating_mul of a product beyond the primitive's own
\* domain has returned MAX, below the primitive's MAX.
C10_Witness ==
    /\ Returned("saturating")
    /\ call.op = "mul"
    /\ Exact("mul", get("Struct", call.self["Struct"]), call.arg[1])
           > PrimMAX(item.signed)
    /\ item.end < PrimMAX(item.signed)
    /\ call.ret["Struct"] = Ret(MAX("Struct"))
    /\ call.ret["Enum"] = Ret(MAX("Enum"))

\* C11 as stated: a signed repr has checked_neg and saturating_neg, an
\* unsigned repr has no negation method at all (no checked_neg, no
\* saturating_neg, no Neg operator).
C11_NoUnsignedNegation ==
    /\ item.signed =>
          {<<"checked", "neg">>, <<"saturating", "neg">>}
              \subseteq generate_checked_operators
    /\ ~item.signed =>
          /\ <<"checked", "neg">> \notin generate_checked_operators
          /\ <<"saturating", "neg">> \notin generate_checked_operators
          /\ "neg" \notin generate_ops_traits
    /\ (pc = "ret" /\ call.op = "neg") => item.signed

\* C11, amended: a signed repr has checked_neg, saturating_neg and the Neg
\* operator; an unsigned repr has checked_neg (present only for the value 0)
\* and neither saturating_neg nor the Neg operator.  The emitted methods are
\* looked at when the type exists and is at rest, the calls when they return.
C11_Negation ==
    /\ pc = "idle" =>
          /\ <<"checked", "neg">> \in generate_checked_operators
          /\ (<<"saturating", "neg">> \in generate_checked_operators) = item.signed
          /\ ("neg" \in generate_ops_traits) = item.signed
    /\ (pc = "ret" /\ call.op = "neg" /\ call.fn # "checked") => item.signed
    /\ (Returned("checked") /\ call.op = "neg" /\ ~item.signed) =>
          \A k \in Kinds :
              call.ret[k] = IF get(k, call.self[k]) = 0
                            THEN Some(call.self[k]) ELSE None

\* C11 witness: checked_neg of an unsigned type has been called on a value
\* other than 0 and has returned None.
C11_Witness ==
    /\ Returned("checked") /\ call.op = "neg" /\ ~item.signed
    /\ call.self["Struct"] # <<0>>
    /\ call.ret["Struct"] = None /\ call.ret["Enum"] = None

\* C12 as stated: a signed repr has checked_abs and no saturating_abs; an
\* unsigned repr has neither checked_abs, saturating_abs nor abs.
C12_AbsCheckedOnly ==
    /\ item.signed =>
          /\ <<"checked", "abs">> \in generate_checked_operators
          /\ <<"saturating", "abs">> \notin generate_checked_operators
    /\ ~item.signed =>
          /\ <<"checked", "abs">> \notin generate_checked_operators
          /\ <<"saturating", "abs">> \notin generate_checked_operators
          /\ "abs" \notin generate_inherent_operators
    /\ (Returned("saturating") /\ call.op = "abs") => FALSE

\* C12, amended: a signed repr has abs, checked_abs and saturating_abs (which
\* clamps |v| into the range); an unsigned repr has none of the three.
C12_Abs ==
    /\ pc = "idle" =>
          /\ (<<"checked", "abs">> \in generate_checked_operators) = item.signed
          /\ (<<"saturating", "abs">> \in generate_checked_operators) = item.signed
          /\ ("abs" \in generate_inherent_operators) = item.signed
    /\ (pc = "ret" /\ call.op = "abs") => item.signed
    /\ (Returned("saturating") /\ call.op = "abs") =>
          \A k \in Kinds :
              get(k, call.ret[k].v) = Clamp(Abs(get(k, call.self[k])))

\* C12 witness: saturating_abs of a signed type has been called on a negative
\* value whose absolute value is above max, and has returned MAX.
C12_Witness ==
    /\ Returned("saturating") /\ call.op = "abs" /\ item.signed
    /\ call.self["Struct"][1] < 0
    /\ Abs(call.self["Struct"][1]) > item.end
    /\ \A k \in Kinds : call.ret[k] = Ret(MAX(k))

\* C13: the sum implementations are emitted exactly when min <= 0 <= max and
\* the product implementations exactly when min <= 1 <= max, so the unchecked
\* seed of a fold (0 for sum, 1 for product) is never built from a value
\* outside the range.
C13_FoldSeeds ==
    /\ ("sum" \in generate_iter_traits) = InBounds(0)
    /\ ("product" \in generate_iter_traits) = InBounds(1)
    /\ \A f \in {<<"sum", 0>>, <<"product", 1>>} :
          Returned(f[1]) =>
              /\ InBounds(f[2])
              /\ \A k \in Kinds : \A a \in new_unchecked(k, f[2]) :
                     HoldsInRange(k, a) /\ get(k, a) = f[2]

\* C13 witness: a product has been folded over a non-empty sequence for a
\* type whose range contains 1 and not 0 (product, no sum).
C13_Witness ==
    /\ Returned("product")
    /\ InBounds(1) /\ ~InBounds(0)
    /\ Len(call.arg) > 0
    /\ \A k \in Kinds : call.ret[k].t = "Ret"

\* C16: checked_add and checked_mul are operand-symmetric: for all instances
\* a and b, a.checked_add(b.get()) equals b.checked_add(a.get()), both absent
\* or both the same instance, and the same for checked_mul.
C16_CheckedSymmetric ==
    (Returned("checked") /\ call.op \in {"add", "mul"}
        /\ call.arg[1] \in Instances) =>
        \A k \in Kinds :
            LET a == call.self[k]
                b == new(k, call.arg[1]).v
            IN  /\ call.ret[k] = checked(k, call.op, b, get(k, a))
                /\ call.ret[k].t \in {"Some", "None"}

\* C16 witness: a.checked_add(b.get()) has returned an instance for two
\* different, non-zero instances a and b.
C16_Witness ==
    /\ Returned("checked") /\ call.op = "add"
    /\ call.arg[1] \in Instances
    /\ call.arg[1] # get("Struct", call.self["Struct"])
    /\ call.arg[1] # 0 /\ get("Struct", call.self["Struct"]) # 0
    /\ \A k \in Kinds : call.ret[k].t = "Some"

\* The exact sum of the first j elements of a sequence of integers.
RECURSIVE PrefixSum(_, _)
PrefixSum(xs, j) == IF j = 0 THEN 0 ELSE PrefixSum(xs, j - 1) + xs[j]

\* C19 as stated: sum starts from the zero instance and adds the elements in
\* sequence order with the validated add: the result equals the exact total
\* when every prefix sum lies in [min, max] (the zero instance for the empty
\* sequence), and the fold panics when some prefix sum leaves [min, max],
\* even if the final total is in range.
C19_SumPrefixes ==
    Returned("sum") =>
        LET xs == call.arg
            fits == \A j \in 1 .. Len(xs) : InBounds(PrefixSum(xs, j))
        IN  \A k \in Kinds :
                IF fits
                THEN /\ call.ret[k].t = "Ret"
                     /\ HoldsInRange(k, call.ret[k].v)
                     /\ get(k, call.ret[k].v) = PrefixSum(xs, Len(xs))
                ELSE call.ret[k] = Panic

\* C18: all forms of one infix operator agree: the four by-value /
\* by-reference combinations and the two assignment forms give the outcome of
\* the by-value form (same result, same panic; an assignment form leaves that
\* result in *self), and for the (bounded, bounded) family a op b equals the
\* (bounded, primitive) a op b.get().
C18_FormsAgree ==
    Returned("binop") =>
        LET family == call.arg[1]
            x == call.arg[3]
        IN  \A k \in Kinds :
              LET a == call.self[k] IN
              CASE family = "bounded_repr" ->
                     call.ret[k] = ops_bounded_repr(k, call.op, a, x)
                [] family = "repr_bounded" ->
                     call.ret[k] = ops_repr_bounded(k, call.op, x, a)
                [] family = "bounded_bounded" ->
                     /\ call.ret[k] = ops_bounded_bounded(k, call.op, a, new(k, x).v)
                     /\ call.ret[k] = ops_bounded_repr(k, call.op, a, x)

\* C18 witness: `a += &b` of the (bounded, bounded) family has stored a new
\* value in a.
C18_Witness ==
    /\ Returned("binop") /\ call.op = "add"
    /\ call.arg[1] = "bounded_bounded" /\ call.arg[2] = "assign_ref"
    /\ \A k \in Kinds :
          /\ call.ret[k].t = "Ret"
          /\ call.ret[k].v # call.self[k]
          /\ inst[k] = call.ret[k].v

\* C15 as stated: when generation fails with a generation-time error, the
\* output token stream handed to generate holds none of the fragments of the
\* failed generation.
C15_NoPartialArtifact ==
    pc = "panicked" => \A k \in Kinds : output[k] = <<>>

\* The variant names and values emitted so far by each of the two loops.
EmittedValues ==
    {name_value(inner_tokens[i].name) : i \in 1 .. Len(inner_tokens)}
        \cup {plugin.vec[i].disr_expr : i \in 1 .. Len(plugin.vec)}

\* generate_item's loop is over and has emitted min .. max, ending at max.
GenerateItemOver ==
    /\ pc \notin {"generate_access_checker", "generate_item_attrs",
                   "generate_item", "variants"}
    /\ Len(inner_tokens) = item.end - item.start + 1
    /\ inner_tokens[Len(inner_tokens)].name = enum_variant(item.end)

\* The plugin's loop is over and has pushed min .. max, ending at max.
PluginVariantsOver ==
    /\ plugin.pc = "done"
    /\ Len(plugin.vec) = item.end - item.start + 1
    /\ plugin.vec[Len(plugin.vec)].disr_expr = item.end
    /\ plugin.current = item.end

\* C17: variant enumeration terminates for every specification with
\* min <= max inside the primitive's domain, the whole domain included: each
\* loop stops right after the variant for max, and at no time has a variant
\* outside [min, max] been emitted (no wrap-around, no step past max).
C17_VariantsTerminate ==
    /\ [](\A v \in EmittedValues : InBounds(v) /\ v \in Prim(item.signed))
    /\ [](plugin.current <= item.end /\ (pc = "variants" => variant <= item.end + 1))
    /\ <>[](GenerateItemOver /\ PluginVariantsOver)

\* C17 witness: both loops have ended on a range that covers the whole
\* domain of the primitive, one variant per value.
C17_Witness ==
    /\ item.start = PrimMIN(item.signed) /\ item.end = PrimMAX(item.signed)
    /\ GenerateItemOver /\ PluginVariantsOver
    /\ Len(inner_tokens) = Modulus /\ Len(plugin.vec) = Modulus

\* v is representable in the primitive.
Representable(v) == v \in Prim(item.signed)

\* C20: in the emitted boundary test, for each bound, when min - 1 (resp.
\* max + 1) is representable in the primitive the test asserts that in_range
\* of it is false, and only when it is not representable it asserts
\* MIN_VALUE == primitive MIN (resp. MAX_VALUE == primitive MAX); the
\* assertion of either alternative is true of the generated type, for every
\* valid specification.
C20_BoundaryTest ==
    /\ LET below == opt_literal(item.start - 1)
           above == opt_literal(item.end + 1)
       IN  /\ IF below.t = "Some" THEN ~in_range(below.v)
              ELSE MIN_VALUE = PrimMIN(item.signed)
           /\ IF above.t = "Some" THEN ~in_range(above.v)
              ELSE MAX_VALUE = PrimMAX(item.signed)
    /\ tests.ok =>
        /\ tests.below_range =
              (IF Representable(item.start - 1) THEN Some(item.start - 1) ELSE None)
        /\ tests.above_range =
              (IF Representable(item.end + 1) THEN Some(item.end + 1) ELSE None)
        /\ \A k \in Kinds :
              LET t == range_test(k, tests) IN
              /\ t[5].what = (IF Representable(item.start - 1)
                              THEN "!in_range(below_range)"
                              ELSE "MIN_VALUE == repr::MIN")
              /\ t[10].what = (IF Representable(item.end + 1)
                               THEN "!in_range(above_range)"
                               ELSE "MAX_VALUE == repr::MAX")
              /\ t[5].holds /\ t[10].holds
              /\ \A i \in 1 .. Len(ran[k]) : i \in {5, 10} => ran[k][i].holds

\* C20 witness: the test of an unsigned type with min > 0 and max at the
\* primitive's MAX has run to its end: it asserted in_range(min - 1) == false
\* and MAX_VALUE == primitive MAX.
C20_Witness ==
    /\ pc = "tested"
    /\ ~item.signed /\ item.start > 0 /\ item.end = PrimMAX(FALSE)
    /\ \A k \in Kinds :
          /\ Len(ran[k]) = 10
          /\ ran[k][5] = [what |-> "!in_range(below_range)", holds |-> TRUE]
          /\ ran[k][10] = [what |-> "MAX_VALUE == repr::MAX", holds |-> TRUE]

\* C21 as stated: for every specification with min <= max inside the
\* primitive's domain (min == max and a bound at the domain's edge included)
\* the probes min + 1 and max - 1 are renderable and in range: generating the
\* tests does not fail, and the assertions in_range(min + 1),
\* in_range(max - 1), new_saturating(min + 1).get() == min + 1 and
\* new_saturating(max - 1).get() == max - 1 hold, so range() runs to its end.
C21_JustInsideProbes ==
    /\ pc # "panicked"
    /\ tests.ok =>
          /\ in_range(tests.above_min) /\ in_range(tests.below_max)
          /\ \A k \in Kinds :
                \A i \in 1 .. Len(saturating_test(k, tests)) :
                    saturating_test(k, tests)[i].holds
    /\ pc = "tested" =>
          \A k \in Kinds :
              Len(ran[k]) = 10 /\ \A i \in 1 .. 10 : ran[k][i].holds

\* The infix operator impls generate_ops_traits emits: every binary
\* operator of the table in its three families and six forms, and the unary
\* one by value and by reference.
EmittedBinops ==
    {<<OPERATORS[i].method, family, form>> :
        i \in {j \in 1 .. Len(OPERATORS) : emitted(OPERATORS[j]) /\ OPERATORS[j].bin},
        family \in {"bounded_repr", "repr_bounded", "bounded_bounded"},
        form \in Forms}

EmittedUnops ==
    IF \E i \in 1 .. Len(OPERATORS) : emitted(OPERATORS[i]) /\ ~OPERATORS[i].bin
    THEN {"val", "ref"} ELSE {}

\* C22 as stated: the emitted existence-only arithmetic test names every
\* operator and method emitted for the same signedness (every checked_<op>
\* and saturating_<op> the table enables, every inherent method, every infix
\* operator form) and no method that is not emitted, and its body is guarded
\* so that it never runs.
C22_ArithmeticTestComplete ==
    tests.ok =>
        /\ generate_test_arithmetic.checked = generate_checked_operators
        /\ generate_test_arithmetic.inherent = generate_inherent_operators
        /\ generate_test_arithmetic.ops = EmittedBinops
        /\ generate_test_arithmetic.neg = EmittedUnops
        /\ ~generate_test_arithmetic.guard

----------------------------------------------------------------------------
(* Comparisons: the derived impls of the item, the impls against the       *)
(* primitive, and the hand-written signed nibble of the library.           *)

\* core::cmp::Ord::cmp on two integers.
Ordering(x, y) ==
    IF x < y THEN "Less" ELSE IF x = y THEN "Equal" ELSE "Greater"

\* What the derived impls compare: the struct's only field; for an enum
\* the discriminant of the variant, a value of the type named by #[repr].
discriminant_value(kind, tokens, x) ==
    IF kind = "Struct" THEN x[1]
    ELSE discriminant(tokens, variant_index(tokens, x))

\* #[derive(PartialEq)]
derive_PartialEq(kind, tokens, a, b) ==
    discriminant_value(kind, tokens, a) = discriminant_value(kind, tokens, b)

\* #[derive(Ord)]: cmp.
derive_Ord(kind, tokens, a, b) ==
    Ordering(discriminant_value(kind, tokens, a),
             discriminant_value(kind, tokens, b))

\* #[derive(PartialOrd)]: a < b is partial_cmp(a, b) == Some(Less).
derive_PartialOrd(kind, tokens, a, b) ==
    Ordering(discriminant_value(kind, tokens, a),
             discriminant_value(kind, tokens, b)) = "Less"

\* impl PartialEq<repr> for ident: self.get() == *other
eq_bounded_repr(kind, self, other) == get(kind, self) = other

\* impl PartialEq<ident> for repr: *self == other.get()
eq_repr_bounded(kind, self, other) == self = get(kind, other)

\* impl PartialOrd<repr> for ident: partial_cmp(&self.get(), other)
partial_cmp_bounded_repr(kind, self, other) ==
    Ordering(get(kind, self), other)

\* impl PartialOrd<ident> for repr: partial_cmp(self, &other.get())
partial_cmp_repr_bounded(kind, self, other) ==
    Ordering(self, get(kind, other))

\* The comparisons between two instances of the emitted type.
CallCmp ==
    \E what \in {"eq", "lt", "cmp"}, x \in Instances :
        LET b(k) == new(k, x).v
            ret(k) ==
                CASE what = "eq" ->
                         derive_PartialEq(k, inner_tokens, inst[k], b(k))
                  [] what = "lt" ->
                         derive_PartialOrd(k, inner_tokens, inst[k], b(k))
                  [] what = "cmp" ->
                         derive_Ord(k, inner_tokens, inst[k], b(k))
        IN  Return("cmp", what, <<x>>, [k \in Kinds |-> Val(ret(k))])

\* The comparisons between an instance and a primitive, in both orders.
CallCmpRepr ==
    \E what \in {"eq_bounded_repr", "eq_repr_bounded",
                 "partial_cmp_bounded_repr", "partial_cmp_repr_bounded"},
       p \in Prim(item.signed) :
        LET ret(k) ==
                CASE what = "eq_bounded_repr" ->
                         eq_bounded_repr(k, inst[k], p)
                  [] what = "eq_repr_bounded" ->
                         eq_repr_bounded(k, p, inst[k])
                  [] what = "partial_cmp_bounded_repr" ->
                         partial_cmp_bounded_repr(k, inst[k], p)
                  [] what = "partial_cmp_repr_bounded" ->
                         partial_cmp_repr_bounded(k, p, inst[k])
        IN  Return("cmp_repr", what, <<p>>, [k \in Kinds |-> Val(ret(k))])

\* pub enum SNibble { N8 = 248, N7, .., N1, U0 = 0, P1, .., P7 }, #[repr(u8)]
SNibble ==
    [i \in 1 .. 16 |->
        [name |-> IF i <= 8 THEN <<"N", 9 - i>>
                  ELSE IF i = 9 THEN <<"U", 0>>
                  ELSE <<"P", i - 9>>,
         disc |-> IF i = 1 THEN <<248>> ELSE IF i = 9 THEN <<0>> ELSE <<>>]]

SNibbles == {SNibble[i].name : i \in 1 .. 16}

\* The value of a signed nibble: its u8 discriminant as the i8 that
\* bounded_integer_impl!(SNibble, i8, SNibble::N8, SNibble::P7) names.
SNibble_to_repr(x) ==
    LET d == discriminant(SNibble, variant_index(SNibble, x))
    IN  IF d >= 128 THEN d - 256 ELSE d

\* The derived comparisons of SNibble: #[derive(.., PartialEq, Eq, Ord, ..)]
CallSNibble ==
    \E what \in {"eq", "cmp"}, a \in SNibbles, b \in SNibbles :
        LET ret == IF what = "eq" THEN derive_PartialEq("Enum", SNibble, a, b)
                   ELSE derive_Ord("Enum", SNibble, a, b)
        IN  Return("SNibble", what, <<a, b>>, [k \in Kinds |-> Val(ret)])

NextCmp ==
    \/ generate_item_first
    \/ generate_item_loop
    \/ generate_item_end
    \/ CallNew
    \/ CallCmp
    \/ CallCmpRepr
    \/ CallSNibble
    \/ Discard

SpecCmp == Init /\ [][NextCmp]_vars

\* The comparisons of the emitted types give what the comparison of the
\* values gives, between two instances and against a primitive.
CmpAgrees ==
    /\ Returned("cmp") =>
          \A k \in Kinds :
              LET a == get(k, call.self[k])
                  b == get(k, new(k, call.arg[1]).v)
                  r == call.ret[k].v
              IN  /\ call.op = "eq" => (r <=> (a = b))
                  /\ call.op = "lt" => (r <=> (a < b))
                  /\ call.op = "cmp" => r = Ordering(a, b)
    /\ Returned("cmp_repr") =>
          \A k \in Kinds :
              LET a == get(k, call.self[k])
                  p == call.arg[1]
                  r == call.ret[k].v
              IN  /\ call.op = "eq_bounded_repr" => (r <=> (a = p))
                  /\ call.op = "eq_repr_bounded" => (r <=> (p = a))
                  /\ call.op = "partial_cmp_bounded_repr" => r = Ordering(a, p)
                  /\ call.op = "partial_cmp_repr_bounded" => r = Ordering(p, a)

\* The derived comparisons of SNibble against the comparison of its values.
SNibbleAgrees ==
    Returned("SNibble") =>
        LET a == SNibble_to_repr(call.arg[1])
            b == SNibble_to_repr(call.arg[2])
            r == call.ret["Enum"].v
        IN  /\ call.op = "eq" => (r <=> (a = b))
            /\ call.op = "cmp" => r = Ordering(a, b)

\* C23: ordering and equality of a bounded type agree with the numeric
\* value: two instances compare as their values do (a < b iff
\* a.get() < b.get(), a == b iff a.get() == b.get(), cmp likewise), for
\* the enum and the struct, for signed ranges with negative values, and an
\* instance compared with a primitive p, in either operand order, gives
\* what a.get() compared with p gives; the derived order of an enum, the
\* order of its discriminants, is the order of the signed values.
C23_OrderAgreesWithValue == CmpAgrees /\ SNibbleAgrees

====
